---- MODULE Spec2Model ----
(***************************************************************************)
(* Model of pyrpleair.PyrpleAir (src/pyrpleair.py): the constructor, the   *)
(* ten public operations and the optional-argument collector.              *)
(*                                                                         *)
(* Python values are written as their repr strings: None is "None", the    *)
(* empty string is "''", the integer 0 is "0", and so on.  A dict is the   *)
(* list of its <<key, value>> pairs in insertion order.  A URL is the      *)
(* sequence of the pieces of its template, with the placeholders replaced  *)
(* by str.format.                                                          *)
(***************************************************************************)
EXTENDS Integers, Sequences, FiniteSets, TLC

VARIABLES
    pc,            \* "new" before __init__ ran, "ready" after it returned, "failed" after it raised
    arg_read,      \* the read_key argument given to __init__
    arg_write,     \* the write_key argument given to __init__
    read_key,      \* self.read_key (Unset while the attribute does not exist)
    write_key,     \* self.write_key (Unset while the attribute does not exist)
    raised,        \* the exception __init__ raised, "none" otherwise
    call,          \* the last operation invoked and the arguments it was given
    request,       \* the last HTTP request handed to the requests library
    returned,      \* how the last operation read the response body: "json" or "text"
    ncalls,        \* number of operation invocations so far
    nrequests,     \* number of HTTP requests issued so far
    repeated,      \* whether the last invocation had the operation and arguments of the one before
    c_pc,          \* collector harness: "idle", "start" or "done"
    parameters,    \* collector harness: the parameters payload (extended in place)
    input_args,    \* collector harness: the input args, [isNone, items]
    args_to_skip,  \* collector harness: the skip list (extended in place)
    base,          \* collector harness: the payload as it was before the call
    skip0          \* collector harness: the skip list as it was before the call

vars == <<pc, arg_read, arg_write, read_key, write_key, raised, call, request,
          returned, ncalls, nrequests, repeated, c_pc, parameters, input_args,
          args_to_skip, base, skip0>>

clientVars == <<pc, arg_read, arg_write, read_key, write_key, raised, call,
                request, returned, ncalls, nrequests, repeated>>

collectorVars == <<c_pc, parameters, input_args, args_to_skip, base, skip0>>

----------------------------------------------------------------------------
(* Bounds of the model *)

\* operation invocations explored on one client
MaxCalls == 2

\* every set of at most this many optional arguments is tried with a value
\* (and also the full bounding box and the full optional set)
MaxSupplied == 1

----------------------------------------------------------------------------
(* Python values *)

None == "None"

Unset == "<unset>"

\* bool(v) for the values of the model
Truthy(v) == v \notin {"None", "''", "0", "False"}

\* a or b
PyOr(a, b) == IF Truthy(a) THEN a ELSE b

\* the elements of a list
Elems(s) == {s[i] : i \in 1..Len(s)}

(* A dict is the list of its <<key, value>> pairs, in insertion order *)

EmptyDict == <<>>

\* {k: v}
Entry(k, v) == <<<<k, v>>>>

\* d.keys()
Keys(d) == {d[i][1] : i \in 1..Len(d)}

\* d[k]
Get(d, k) == d[CHOOSE i \in 1..Len(d) : d[i][1] = k][2]

\* d[k] = v
Put(d, k, v) ==
    IF k \in Keys(d)
    THEN LET i == CHOOSE j \in 1..Len(d) : d[j][1] = k
         IN SubSeq(d, 1, i - 1) \o Entry(k, v) \o SubSeq(d, i + 1, Len(d))
    ELSE d \o Entry(k, v)

----------------------------------------------------------------------------
(* Endpoint templates *)

api_base == "https://api.purpleair.com/"

api_version == "v1"

api_endpoint ==
    [keys           |-> <<api_base, api_version, "/keys">>,
     sensors        |-> <<api_base, api_version, "/sensors">>,
     sensor         |-> <<api_base, api_version, "/sensors/", "{sensor_index}">>,
     groups         |-> <<api_base, api_version, "/groups">>,
     group          |-> <<api_base, api_version, "/groups/", "{group_id}">>,
     groups_members |-> <<api_base, api_version, "/groups/", "{group_id}", "/members">>,
     group_member   |-> <<api_base, api_version, "/groups/", "{group_id}", "/members/", "{member_id}">>]

\* the replacement field "{name}" of a keyword argument
Field(name) == "{" \o name \o "}"

\* template.format(**kwargs)
RECURSIVE Format(_, _)
Format(template, kwargs) ==
    IF template = <<>> THEN <<>>
    ELSE LET piece == Head(template)
             named == {k \in Keys(kwargs) : Field(k) = piece}
         IN <<IF named # {} THEN Get(kwargs, CHOOSE k \in named : TRUE) ELSE piece>>
                \o Format(Tail(template), kwargs)

----------------------------------------------------------------------------
(* __add_optional_args_to_payload *)

\* variant: the skip list is left as the caller gave it
extended_skip_nothing(skip) == skip

\* args_to_skip.extend(['self', 'header', 'parameters'])
extended_skip(skip) == skip \o <<"self", "header", "parameters">>

\* variant: `if input_arg_value:` instead of `is not None`
is_present_truthy(v) == Truthy(v)

\* input_arg_value is not None
is_present(v) == v # None

\* the for loop over input_args
RECURSIVE add_each(_, _, _)
add_each(payload, todo, skip) ==
    IF todo = <<>> THEN payload
    ELSE LET input_arg_name  == Head(todo)[1]
             input_arg_value == Head(todo)[2]
             next == IF input_arg_name \notin Elems(skip) /\ is_present(input_arg_value)
                     THEN Put(payload, input_arg_name, input_arg_value)
                     ELSE payload
         IN add_each(next, Tail(todo), skip)

\* the payload after the call
add_optional_args_to_payload(payload, given, skip) ==
    IF ~given.isNone /\ Len(given.items) > 0
    THEN add_each(payload, given.items, extended_skip(skip))
    ELSE payload

\* a dict given as input_args
Given(d) == [isNone |-> FALSE, items |-> d]

\* None given as input_args
NoArgs == [isNone |-> TRUE, items |-> EmptyDict]

\* locals() of a method whose header and parameters are already bound
Locals(arguments) ==
    Given(Entry("self", "<PyrpleAir>") \o arguments
              \o Entry("header", "<dict>") \o Entry("parameters", "<dict>"))

----------------------------------------------------------------------------
(* Inputs *)

ReadKeyArgs == {None, "''", "'RK'"}

WriteKeyArgs == {None, "''", "'WK'"}

CheckedKeys == {None, "'RK'", "'XK'"}

SensorIndexes == {"12345", "42"}

GroupIds == {"7", "8"}

MemberIds == {"3", "7"}

GroupNames == {"'my group'", "''"}

FieldsArgs == {"'pm2.5,humidity'", None}

GroupFieldsArgs == {"'pm2.5'"}

\* the group whose sensors get_group_sensors_data reads
SensorGroupIds == {"7"}

\* the optional arguments of get_sensor_data
SensorOptionals == <<"read_key", "fields", "cf">>

BoundingBox == {"nwlng", "nwlat", "selng", "selat"}

\* the optional arguments of get_sensors_data and get_group_sensors_data
SensorsOptionals ==
    <<"cf", "location_type", "read_keys", "show_only", "modified_since", "max_age",
      "nwlng", "nwlat", "selng", "selat">>

\* the optional arguments of add_group_member
MemberOptionals == <<"sensor_id", "sensor_index", "owner_email", "location_type">>

\* the value an optional argument has when the caller supplies it
Sample(n) ==
    CASE n = "read_key"       -> "'PK'"
      [] n = "fields"         -> "'pm2.5'"
      [] n = "cf"             -> "3.4"
      [] n = "location_type"  -> "0"
      [] n = "read_keys"      -> "'K1,K2'"
      [] n = "show_only"      -> "'42,43'"
      [] n = "modified_since" -> "0"
      [] n = "max_age"        -> "604800"
      [] n = "nwlng"          -> "-122.5"
      [] n = "nwlat"          -> "37.8"
      [] n = "selng"          -> "-122.3"
      [] n = "selat"          -> "37.7"
      [] n = "sensor_id"      -> "'ab:cd'"
      [] n = "sensor_index"   -> "42"
      [] n = "owner_email"    -> "''"
      [] OTHER                -> "1"

\* the names among names that sup marks as supplied
Marked(names, sup) == {names[i] : i \in {j \in 1..Len(names) : sup[j]}}

\* the ways a caller supplies optional arguments: sup[i] tells whether names[i] is given a value
SuppliedSets(names) ==
    {sup \in [1..Len(names) -> BOOLEAN] :
        \/ Cardinality(Marked(names, sup)) <= MaxSupplied
        \/ Marked(names, sup) = Elems(names)
        \/ Marked(names, sup) = BoundingBox \cap Elems(names)}

\* the keyword arguments of a call that supplies sup among names (the others default to None)
RECURSIVE Optional(_, _)
Optional(names, sup) ==
    IF names = <<>> THEN EmptyDict
    ELSE Entry(Head(names), IF Head(sup) THEN Sample(Head(names)) ELSE None)
            \o Optional(Tail(names), Tail(sup))

----------------------------------------------------------------------------
(* The HTTP collaborator *)

NoRequest ==
    [method |-> "none", url |-> <<>>, headers |-> EmptyDict,
     params |-> EmptyDict, has_params |-> FALSE]

\* requests.get / post / delete(url, headers=headers, params=params)
WithParams(method, url, headers, params) ==
    [method |-> method, url |-> url, headers |-> headers,
     params |-> params, has_params |-> TRUE]

\* requests.get / delete(url, headers=headers)
WithoutParams(method, url, headers) ==
    [method |-> method, url |-> url, headers |-> headers,
     params |-> EmptyDict, has_params |-> FALSE]

\* {'X-API-Key': key}
Header(key) == Entry("X-API-Key", key)

\* variant: a request equal to the previous one is not sent again
Send_cached(req) ==
    IF req = request
    THEN UNCHANGED <<request, nrequests>>
    ELSE request' = req /\ nrequests' = nrequests + 1

\* the one call into the requests library an operation makes
Send(req) ==
    /\ request' = req
    /\ nrequests' = nrequests + 1

\* an operation invoked with arguments that issues req and reads the body as body
Invoke(op, arguments, req, body) ==
    /\ pc = "ready"
    /\ ncalls < MaxCalls
    /\ call' = [op |-> op, args |-> arguments]
    /\ repeated' = (call = [op |-> op, args |-> arguments])
    /\ ncalls' = ncalls + 1
    /\ Send(req)
    /\ returned' = body
    /\ UNCHANGED <<pc, arg_read, arg_write, read_key, write_key, raised>>
    /\ UNCHANGED collectorVars

----------------------------------------------------------------------------
(* __init__ *)

\* variant: not (read_key and write_key)
ctor_raises_unless_both(rk, wk) == ~(Truthy(rk) /\ Truthy(wk))

\* not (read_key or write_key)
ctor_raises(rk, wk) == ~Truthy(PyOr(rk, wk))

\* variant: the attributes are assigned before the check
PyrpleAir_init_stores_first ==
    /\ pc = "new"
    /\ read_key' = arg_read
    /\ write_key' = arg_write
    /\ IF ctor_raises(arg_read, arg_write)
       THEN pc' = "failed" /\ raised' = "ValueError"
       ELSE pc' = "ready" /\ UNCHANGED raised
    /\ UNCHANGED <<arg_read, arg_write, call, request, returned, ncalls, nrequests, repeated>>
    /\ UNCHANGED collectorVars

\* __init__(self, read_key, write_key)
PyrpleAir_init ==
    /\ pc = "new"
    /\ IF ctor_raises(arg_read, arg_write)
       THEN /\ pc' = "failed"
            /\ raised' = "ValueError"
            /\ UNCHANGED <<read_key, write_key>>
       ELSE /\ pc' = "ready"
            /\ read_key' = arg_read
            /\ write_key' = arg_write
            /\ UNCHANGED raised
    /\ UNCHANGED <<arg_read, arg_write, call, request, returned, ncalls, nrequests, repeated>>
    /\ UNCHANGED collectorVars

----------------------------------------------------------------------------
(* The public operations *)

check_api_key ==
    \E key \in CheckedKeys :
        LET header == Header(key)
        IN Invoke("check_api_key", Entry("key", key),
                  WithoutParams("GET", api_endpoint["keys"], header), "json")

\* get_sensor_data called with the given arguments
get_sensor_data_call(arguments, skip) ==
    LET header == Header(read_key)
        params == add_optional_args_to_payload(EmptyDict, Locals(arguments), skip)
        url    == Format(api_endpoint["sensor"],
                         Entry("sensor_index", Get(arguments, "sensor_index")))
    IN Invoke("get_sensor_data", arguments, WithParams("GET", url, header, params), "json")

\* variant: the skip list [] instead of ['sensor_index']
get_sensor_data_skips_nothing ==
    \E sensor_index \in SensorIndexes, sup \in SuppliedSets(SensorOptionals) :
        get_sensor_data_call(
            Entry("sensor_index", sensor_index) \o Optional(SensorOptionals, sup), <<>>)

\* variant: a read_key argument replaces self.read_key
get_sensor_data_stores_read_key ==
    \E sensor_index \in SensorIndexes, sup \in SuppliedSets(SensorOptionals) :
        LET arguments == Entry("sensor_index", sensor_index) \o Optional(SensorOptionals, sup)
            key    == IF Get(arguments, "read_key") # None
                      THEN Get(arguments, "read_key") ELSE read_key
            header == Header(key)
            params == add_optional_args_to_payload(
                          EmptyDict, Locals(arguments), <<"sensor_index">>)
            url    == Format(api_endpoint["sensor"], Entry("sensor_index", sensor_index))
        IN /\ pc = "ready"
           /\ ncalls < MaxCalls
           /\ call' = [op |-> "get_sensor_data", args |-> arguments]
           /\ repeated' = (call = [op |-> "get_sensor_data", args |-> arguments])
           /\ ncalls' = ncalls + 1
           /\ Send(WithParams("GET", url, header, params))
           /\ returned' = "json"
           /\ read_key' = key
           /\ UNCHANGED <<pc, arg_read, arg_write, write_key, raised>>
           /\ UNCHANGED collectorVars

get_sensor_data ==
    \E sensor_index \in SensorIndexes, sup \in SuppliedSets(SensorOptionals) :
        get_sensor_data_call(
            Entry("sensor_index", sensor_index) \o Optional(SensorOptionals, sup),
            <<"sensor_index">>)

get_sensors_data ==
    \E fields \in FieldsArgs, sup \in SuppliedSets(SensorsOptionals) :
        LET arguments == Entry("fields", fields) \o Optional(SensorsOptionals, sup)
            header == Header(read_key)
            params == add_optional_args_to_payload(
                          Entry("fields", fields), Locals(arguments), <<"fields">>)
        IN Invoke("get_sensors_data", arguments,
                  WithParams("GET", api_endpoint["sensors"], header, params), "json")

\* variant: the header is built from self.read_key
create_group_read_key ==
    \E name \in GroupNames :
        Invoke("create_group", Entry("name", name),
               WithParams("POST", api_endpoint["groups"], Header(read_key),
                          Entry("name", name)), "json")

create_group ==
    \E name \in GroupNames :
        LET header == Header(write_key)
            params == Entry("name", name)
        IN Invoke("create_group", Entry("name", name),
                  WithParams("POST", api_endpoint["groups"], header, params), "json")

delete_group ==
    \E group_id \in GroupIds :
        LET header == Header(write_key)
            url    == Format(api_endpoint["group"], Entry("group_id", group_id))
        IN Invoke("delete_group", Entry("group_id", group_id),
                  WithoutParams("DELETE", url, header), "text")

add_group_member ==
    \E group_id \in GroupIds, sup \in SuppliedSets(MemberOptionals) :
        LET arguments == Entry("group_id", group_id) \o Optional(MemberOptionals, sup)
            header == Header(write_key)
            params == add_optional_args_to_payload(
                          Entry("group_id", group_id), Locals(arguments), <<"group_id">>)
            url    == Format(api_endpoint["groups_members"], Entry("group_id", group_id))
        IN Invoke("add_group_member", arguments,
                  WithParams("POST", url, header, params), "json")

\* variant: the header is built from self.read_key
delete_group_member_read_key ==
    \E group_id \in GroupIds, member_id \in MemberIds :
        LET arguments == Entry("group_id", group_id) \o Entry("member_id", member_id)
        IN Invoke("delete_group_member", arguments,
                  WithoutParams("DELETE", Format(api_endpoint["group_member"], arguments),
                                Header(read_key)), "text")

delete_group_member ==
    \E group_id \in GroupIds, member_id \in MemberIds :
        LET arguments == Entry("group_id", group_id) \o Entry("member_id", member_id)
            header == Header(write_key)
            url    == Format(api_endpoint["group_member"], arguments)
        IN Invoke("delete_group_member", arguments,
                  WithoutParams("DELETE", url, header), "text")

get_group_info ==
    \E group_id \in GroupIds :
        LET header == Header(read_key)
            url    == Format(api_endpoint["group"], Entry("group_id", group_id))
        IN Invoke("get_group_info", Entry("group_id", group_id),
                  WithoutParams("GET", url, header), "json")

get_owned_groups ==
    LET header == Header(read_key)
    IN Invoke("get_owned_groups", EmptyDict,
              WithoutParams("GET", api_endpoint["groups"], header), "json")

get_group_sensors_data ==
    \E group_id \in SensorGroupIds, fields \in GroupFieldsArgs, sup \in SuppliedSets(SensorsOptionals) :
        LET arguments == Entry("group_id", group_id) \o Entry("fields", fields)
                            \o Optional(SensorsOptionals, sup)
            header == Header(read_key)
            params == add_optional_args_to_payload(
                          Entry("fields", fields), Locals(arguments), <<"fields">>)
            url    == Format(api_endpoint["groups_members"], Entry("group_id", group_id))
        IN Invoke("get_group_sensors_data", arguments,
                  WithParams("GET", url, header, params), "json")

----------------------------------------------------------------------------
(* The client: one construction, then any sequence of operations *)

NoCall == [op |-> "none", args |-> EmptyDict]

CollectorIdle ==
    /\ c_pc = "idle"
    /\ parameters = EmptyDict
    /\ input_args = NoArgs
    /\ args_to_skip = <<>>
    /\ base = EmptyDict
    /\ skip0 = <<>>

ClientNew ==
    /\ pc = "new"
    /\ read_key = Unset
    /\ write_key = Unset
    /\ raised = "none"
    /\ call = NoCall
    /\ request = NoRequest
    /\ returned = "none"
    /\ ncalls = 0
    /\ nrequests = 0
    /\ repeated = FALSE

Init ==
    /\ arg_read \in ReadKeyArgs
    /\ arg_write \in WriteKeyArgs
    /\ ClientNew
    /\ CollectorIdle

Next ==
    \/ PyrpleAir_init
    \/ check_api_key
    \/ get_sensor_data
    \/ get_sensors_data
    \/ create_group
    \/ delete_group
    \/ add_group_member
    \/ delete_group_member
    \/ get_group_info
    \/ get_owned_groups
    \/ get_group_sensors_data

Spec == Init /\ [][Next]_vars

----------------------------------------------------------------------------
(* The collector on its own: any payload, any input args, any skip list *)

\* marks a name that is not a key of a dict
Absent == "<absent>"

\* the dict with, in order, the names whose choice is not Absent
RECURSIVE Chosen(_, _)
Chosen(names, choice) ==
    IF names = <<>> THEN EmptyDict
    ELSE (IF Head(choice) = Absent THEN EmptyDict ELSE Entry(Head(names), Head(choice)))
            \o Chosen(Tail(names), Tail(choice))

\* the dicts with keys among names and values among values
Dicts(names, values) ==
    {Chosen(names, choice) : choice \in [1..Len(names) -> values \cup {Absent}]}

CollectorBases == Dicts(<<"fields", "limit">>, {"'old'"})

CollectorInputs ==
    {NoArgs} \cup
    {Given(a \o b \o c) :
        a \in Dicts(<<"self">>, {"<PyrpleAir>"}),
        b \in Dicts(<<"fields", "cf", "sensor_index">>, {None, "'pm2.5'", "42", "0"}),
        c \in Dicts(<<"header", "parameters">>, {"<dict>"})}

CollectorSkips == {<<>>, <<"sensor_index">>, <<"fields">>, <<"sensor_index", "cf">>}

add_optional_args_to_payload_call ==
    /\ c_pc = "start"
    /\ parameters' = add_optional_args_to_payload(parameters, input_args, args_to_skip)
    /\ args_to_skip' = extended_skip(args_to_skip)
    /\ c_pc' = "done"
    /\ UNCHANGED <<input_args, base, skip0>>
    /\ UNCHANGED clientVars

InitCollector ==
    /\ arg_read = None
    /\ arg_write = None
    /\ ClientNew
    /\ c_pc = "start"
    /\ base \in CollectorBases
    /\ parameters = base
    /\ input_args \in CollectorInputs
    /\ skip0 \in CollectorSkips
    /\ args_to_skip = skip0

NextCollector == add_optional_args_to_payload_call

SpecCollector == InitCollector /\ [][NextCollector]_vars

----------------------------------------------------------------------------
(* Vocabulary of the properties *)

ReadOps ==
    {"get_sensor_data", "get_sensors_data", "get_group_info", "get_owned_groups",
     "get_group_sensors_data"}

WriteOps == {"create_group", "delete_group", "add_group_member", "delete_group_member"}

\* the X-API-Key header of the last request
SentKey == Get(request.headers, "X-API-Key")

\* the endpoint template an operation formats
TemplateOf(op) ==
    CASE op = "check_api_key"                         -> api_endpoint["keys"]
      [] op = "get_sensor_data"                       -> api_endpoint["sensor"]
      [] op = "get_sensors_data"                      -> api_endpoint["sensors"]
      [] op \in {"create_group", "get_owned_groups"}  -> api_endpoint["groups"]
      [] op \in {"delete_group", "get_group_info"}    -> api_endpoint["group"]
      [] op \in {"add_group_member", "get_group_sensors_data"}
                                                      -> api_endpoint["groups_members"]
      [] op = "delete_group_member"                   -> api_endpoint["group_member"]

\* the path parameters the template of an operation consumes
PathParams(op) ==
    {k \in {"sensor_index", "group_id", "member_id"} : Field(k) \in Elems(TemplateOf(op))}

\* the arguments of the last call, among names, that were given a value other than None
SuppliedAmong(names) == {n \in Elems(names) : Get(call.args, n) # None}

\* d has exactly the keys ks, each once, each with the value it has in src
HasExactly(d, ks, src) ==
    /\ Keys(d) = ks
    /\ Len(d) = Cardinality(ks)
    /\ \A i \in 1..Len(d) : d[i][2] = Get(src, d[i][1])

\* the names the collector must copy in the collector harness
Selected ==
    {n \in Keys(input_args.items) :
        /\ n \notin Elems(skip0)
        /\ n \notin {"self", "header", "parameters"}
        /\ Get(input_args.items, n) # None}

----------------------------------------------------------------------------
(* C1 *)

\* C1: a construction with both credentials None fails with ValueError, and
\* it fails before either credential is stored: the attributes do not exist
\* and no operation was ever served by the object.
C1_BothAbsentFails ==
    (pc # "new" /\ arg_read = None /\ arg_write = None)
        => /\ pc = "failed"
           /\ raised = "ValueError"
           /\ read_key = Unset
           /\ write_key = Unset
           /\ ncalls = 0
           /\ nrequests = 0

C1_Witness ==
    pc = "failed" /\ arg_read = None /\ arg_write = None /\ raised = "ValueError"

(* C2 *)

\* C2 as stated: whenever at least one credential is not None (an empty
\* string included), construction succeeds and stores both values unchanged.
C2_PresentSucceeds_AsStated ==
    (pc # "new" /\ ncalls = 0 /\ (arg_read # None \/ arg_write # None))
        => /\ pc = "ready"
           /\ raised = "none"
           /\ read_key = arg_read
           /\ write_key = arg_write

\* C2 as amended: whenever at least one credential is truthy (not None and
\* not the empty string), construction succeeds and stores both values
\* unchanged; when neither is truthy, construction fails.
C2_TruthySucceeds ==
    (pc # "new" /\ ncalls = 0)
        => IF Truthy(arg_read) \/ Truthy(arg_write)
           THEN /\ pc = "ready"
                /\ raised = "none"
                /\ read_key = arg_read
                /\ write_key = arg_write
           ELSE pc = "failed" /\ raised = "ValueError"

C2_Witness ==
    /\ pc = "ready"
    /\ ncalls = 0
    /\ arg_read = "''"
    /\ arg_write = "'WK'"
    /\ read_key = "''"
    /\ write_key = "'WK'"

(* C3 *)

\* C3: the X-API-Key header is the only header and its value is fixed by the
\* operation: the stored read key for the retrieval operations, the stored
\* write key for the mutating operations, the key argument for check_api_key.
C3_KeyFixedPerOperation ==
    ncalls > 0
        => /\ Keys(request.headers) = {"X-API-Key"}
           /\ Len(request.headers) = 1
           /\ call.op \in ReadOps => SentKey = read_key
           /\ call.op \in WriteOps => SentKey = write_key
           /\ call.op = "check_api_key" => SentKey = Get(call.args, "key")
           /\ call.op \in ReadOps \cup WriteOps \cup {"check_api_key"}

C3_Witness ==
    /\ call.op = "get_sensor_data"
    /\ Get(call.args, "read_key") = "'PK'"
    /\ read_key = "'RK'"
    /\ SentKey = "'RK'"

(* C4 *)

\* C4: after the collector ran, the payload is the payload before the call
\* overridden with exactly the input args that are not in the skip list, are
\* not self/header/parameters and are not None (falsy values are copied);
\* None or an empty dict as input args leaves the payload as it was.
C4_CollectorOverridesExactly ==
    c_pc = "done"
        => /\ Keys(parameters) = Keys(base) \cup Selected
           /\ Len(parameters) = Cardinality(Keys(parameters))
           /\ \A n \in Keys(parameters) :
                  Get(parameters, n) =
                      IF n \in Selected THEN Get(input_args.items, n) ELSE Get(base, n)
           /\ (input_args.isNone \/ input_args.items = EmptyDict) => parameters = base

C4_Witness ==
    /\ c_pc = "done"
    /\ base = <<<<"fields", "'old'">>, <<"limit", "'old'">>>>
    /\ skip0 = <<"sensor_index">>
    /\ ~input_args.isNone
    /\ Keys(input_args.items) = {"fields", "cf", "sensor_index", "self", "header", "parameters"}
    /\ Get(input_args.items, "fields") = "0"
    /\ Get(input_args.items, "cf") = None
    /\ Get(input_args.items, "sensor_index") = "42"
    /\ parameters = <<<<"fields", "0">>, <<"limit", "'old'">>>>

(* C5 *)

\* C5: no operation that sends query parameters sends, as a key of them, a
\* path parameter its endpoint template consumes.
C5_PathParamsNotInQuery ==
    (ncalls > 0 /\ request.has_params)
        => Keys(request.params) \cap PathParams(call.op) = {}

(* C6 *)

\* C6: get_sensors_data sends as query parameters exactly fields and the
\* optional arguments given a value other than None, each with its value.
C6_SensorsParamsExact ==
    call.op = "get_sensors_data"
        => /\ request.has_params
           /\ HasExactly(request.params,
                         {"fields"} \cup SuppliedAmong(SensorsOptionals), call.args)

C6_Witness ==
    /\ call.op = "get_sensors_data"
    /\ Get(call.args, "fields") = "'pm2.5,humidity'"
    /\ SuppliedAmong(SensorsOptionals) = BoundingBox
    /\ Keys(request.params) = {"fields", "nwlng", "nwlat", "selng", "selat"}

(* C7 *)

\* C7: get_sensor_data issues a GET to the sensor template with the sensor
\* index substituted, with the stored read key as header, and with exactly
\* the arguments among read_key, fields, cf that are not None as parameters.
C7_OneSensorRequest ==
    call.op = "get_sensor_data"
        => /\ request.method = "GET"
           /\ request.url = <<api_base, api_version, "/sensors/", Get(call.args, "sensor_index")>>
           /\ request.headers = Header(read_key)
           /\ request.has_params
           /\ HasExactly(request.params, SuppliedAmong(SensorOptionals), call.args)

C7_Witness ==
    /\ call.op = "get_sensor_data"
    /\ Get(call.args, "sensor_index") = "12345"
    /\ SuppliedAmong(SensorOptionals) = {}
    /\ request.params = EmptyDict
    /\ request.url = <<"https://api.purpleair.com/", "v1", "/sensors/", "12345">>
    /\ SentKey = read_key

(* C8 *)

\* C8: the number of HTTP requests issued equals the number of operation
\* invocations, also when an invocation repeats the one before it.
C8_OneRequestPerInvocation == nrequests = ncalls

C8_Witness ==
    /\ ncalls = MaxCalls
    /\ repeated
    /\ call.op = "get_owned_groups"
    /\ nrequests = MaxCalls

(* C9 *)

\* C9: in every state after a successful construction the stored credentials
\* are the values given to the constructor.
C9_CredentialsNeverMutated ==
    pc = "ready" => (read_key = arg_read /\ write_key = arg_write)

C9_Witness ==
    /\ pc = "ready"
    /\ ncalls = MaxCalls
    /\ call.op = "get_sensor_data"
    /\ Get(call.args, "read_key") = "'PK'"
    /\ read_key = arg_read
    /\ read_key # "'PK'"

(* C10 *)

\* C10 as stated: every request of a read or write operation on a
\* constructed client carries an X-API-Key other than None.
C10_KeyAlwaysPresent_AsStated ==
    (ncalls > 0 /\ call.op \in ReadOps \cup WriteOps) => SentKey # None

\* C10 as amended: a constructed client holds at least one credential that
\* is not None, and the request of a read (write) operation carries an
\* X-API-Key other than None exactly when the read (write) credential given
\* at construction was not None.
C10_KeyPresentIffSupplied ==
    /\ pc = "ready" => (read_key # None \/ write_key # None)
    /\ (ncalls > 0 /\ call.op \in ReadOps) => (SentKey # None <=> arg_read # None)
    /\ (ncalls > 0 /\ call.op \in WriteOps) => (SentKey # None <=> arg_write # None)

C10_Witness ==
    /\ pc = "ready"
    /\ arg_read = "'RK'"
    /\ arg_write = None
    /\ call.op = "create_group"
    /\ SentKey = None

====
